---- MODULE Spec2Model ----
(***************************************************************************)
(* Model of the mm3ds renderer core (source/renderer.c, source/panic.c,    *)
(* source/inc/panic.h): the mesh registry, the request queue and the draw  *)
(* submission loop, together with the C heap the two tables live in and    *)
(* the part of the citro3d backend the renderer talks to.                  *)
(*                                                                         *)
(* Values a C program reads without having determined them (memory that    *)
(* was never written, memory outside a live allocation, memory reached     *)
(* through a wild or freed pointer) are "indeterminate".  A stored value   *)
(* is Det(v) = <<v>>; an indeterminate one is Indet = <<>>, which stands    *)
(* for every value the read may return and so equals no determined value.  *)
(* An access that is undefined behaviour may also stop the program         *)
(* (status "fault"); both outcomes are successors of the same call.        *)
(***************************************************************************)
EXTENDS Integers, Sequences, FiniteSets, TLC

(* ----------------------------- bounds ---------------------------------- *)
\* registrations plus requests made, on a renderer whose table fields
\* happened to be zero after renderer_init
MaxElements == 12
\* the same, on a renderer whose table fields hold other garbage
MaxElementsGarbage == 2
\* largest garbage value tried for an uninitialised size_t field
MaxGarbage == 1
\* the first Variety registrations, and the first Variety requests, choose
\* their input; later ones repeat one input
Variety == 1

(* ------------------------ program constants ---------------------------- *)
\* first allocation of either table: 10 elements
InitialCapacity == 10
\* sizeof(struct mesh): material 64, vbo_data 4, buf_info 4, texture 24,
\* vertex_count 4 on the 32-bit target
SizeofMesh == 100
\* sizeof(struct render_request): u32 mesh_id + C3D_Mtx (16 floats)
SizeofRequest == 68

Max(a, b) == IF a >= b THEN a ELSE b
Min(a, b) == IF a <= b THEN a ELSE b

(* ----------------------- indeterminate values -------------------------- *)
Indet == <<>>
Det(v) == <<v>>

IndetMesh ==
    [material |-> Indet, vbo_data |-> Indet, buf_info |-> Indet,
     texture |-> Indet, vertex_count |-> Indet]

IndetRequest == [mesh_id |-> Indet, model |-> Indet]

(* ------------------------------ heap ----------------------------------- *)
\* A pointer is NULL, a garbage address that no allocation returned, or the
\* address of heap block id (live or already freed).
NULL == [kind |-> "null", id |-> 0]
WILD == [kind |-> "wild", id |-> 0]
Block(b) == [kind |-> "block", id |-> b]

\* heap is the sequence of blocks ever allocated: [live, bytes]
Live(h, p) == p.kind = "block" /\ h[p.id].live

\* element i of an array of size-byte elements at p lies inside a live block
InBounds(h, p, i, size) == Live(h, p) /\ (i + 1) * size <= h[p.id].bytes

\* malloc(bytes): a fresh block, or NULL when the allocator is out of memory
Malloc(h, bytes, ok) ==
    IF ok THEN [heap |-> Append(h, [live |-> TRUE, bytes |-> bytes]),
                ptr |-> Block(Len(h) + 1)]
    ELSE [heap |-> h, ptr |-> NULL]

\* realloc(p, bytes) of a live block: "fail" returns NULL and leaves the block,
\* "inplace" resizes it, "moved" frees it and returns a fresh block.
Realloc(h, p, bytes, how) ==
    CASE how = "fail" -> [heap |-> h, ptr |-> NULL]
      [] how = "inplace" -> [heap |-> [h EXCEPT ![p.id].bytes = bytes], ptr |-> p]
      [] OTHER -> [heap |-> Append([h EXCEPT ![p.id].live = FALSE],
                                   [live |-> TRUE, bytes |-> bytes]),
                   ptr |-> Block(Len(h) + 1)]

\* realloc of a pointer that is not a live block is undefined: when the
\* program survives it, the allocator hands out some block of that size.
ReallocWild(h, bytes) ==
    [heap |-> Append(h, [live |-> TRUE, bytes |-> bytes]), ptr |-> Block(Len(h) + 1)]

\* The contents of a table are kept as the sequence of its elements, element
\* i at position i + 1; elements past the end were never written.
Load(h, p, mem, i, size, indet) ==
    IF InBounds(h, p, i, size) /\ i < Len(mem) THEN mem[i + 1] ELSE indet

Store(mem, i, val, indet) ==
    [k \in 1..Max(Len(mem), i + 1) |->
        IF k = i + 1 THEN val ELSE IF k <= Len(mem) THEN mem[k] ELSE indet]

\* realloc keeps the first min(old, new) bytes: the whole elements among them
Truncate(mem, bytes, size) == SubSeq(mem, 1, Min(Len(mem), bytes \div size))

(* ------------------------ data of the program -------------------------- *)
\* Mtx_PerspTilt(80 degrees, C3D_AspectRatioTop, 0.01, 1000, false)
Projection == "PerspTilt80"
LightVec == <<0, 0, -1, 0>>
LightClr == <<1, 1, 1, 1>>

\* what a caller passes to renderer_register_mesh
Triangle ==
    [vertices |-> "triangle", n_vertices |-> 3, texture_data |-> "white_t3x",
     texture_size |-> 64, material |-> "default_material"]
Quad ==
    [vertices |-> "quad", n_vertices |-> 6, texture_data |-> "brick_t3x",
     texture_size |-> 128, material |-> "shiny"]
Assets == {Triangle, Quad}
\* the inputs of the registration that follows k successful ones
RegisterInputs(k) ==
    (IF k < Variety THEN Assets ELSE {Quad}) \cup
    { [Triangle EXCEPT !.vertices = "NULL"],
      [Triangle EXCEPT !.n_vertices = 0],
      [Triangle EXCEPT !.texture_data = "NULL"],
      [Triangle EXCEPT !.texture_size = 0],
      [Triangle EXCEPT !.texture_data = "malformed"] }

Matrices == {"identity", "translate"}

\* Tex3DS_TextureImport: a texture made from the container, or failure
TextureImports(data) == data # "malformed"
TextureOf(data) == [tex |-> data, filter |-> "LINEAR_NEAREST"]

(* ------------------------------ state ---------------------------------- *)
VARIABLES
    status,             \* "running", "panic" (panic() called) or "fault"
    heap,               \* the C heap
    projection,         \* struct renderer
    requests, n_requests, capacity_requests,
    meshes, n_meshes, capacity_meshes,
    mesh_mem,           \* the contents meshes[] reads
    req_mem,            \* the contents requests[] reads
    linear,             \* backend linear memory: the vertex buffers
    bound_buf,          \* backend: the vertex buffer C3D_GetBufInfo() names
    events,             \* backend: the calls made by the last API call
    issued,             \* history: the registrations that returned
    enqueued,           \* history: the requests made since the last render
    requested,          \* history: the number of requests made so far
    last,               \* history: the last API call, what it was given and
                        \* the resource operations that failed in it
    garbage             \* history: renderer_init left a table field nonzero

registry == <<meshes, n_meshes, capacity_meshes, mesh_mem>>
queue == <<requests, n_requests, capacity_requests, req_mem>>
backend == <<linear, bound_buf, events>>
history == <<issued, enqueued, requested, last>>
vars == <<status, heap, projection, registry, queue, backend, history, garbage>>

Pointers0 == {NULL, WILD}
Garbage == 0..MaxGarbage

\* renderer_init: malloc'ed, not calloc'ed; it sets the projection, the shader
\* and the attribute layout and leaves the six table fields as malloc gave them.
InitCommon ==
    /\ status = "running"
    /\ heap = <<>>
    /\ projection = Projection
    /\ mesh_mem = <<>>
    /\ req_mem = <<>>
    /\ linear = <<>>
    /\ bound_buf = Indet
    /\ events = <<>>
    /\ issued = <<>>
    /\ enqueued = <<>>
    /\ requested = 0
    /\ last = [op |-> "init"]

Zeroed ==
    /\ meshes = NULL /\ n_meshes = 0 /\ capacity_meshes = 0
    /\ requests = NULL /\ n_requests = 0 /\ capacity_requests = 0

renderer_init ==
    /\ InitCommon
    /\ meshes \in Pointers0
    /\ requests \in Pointers0
    /\ n_meshes \in Garbage
    /\ n_requests \in Garbage
    /\ capacity_meshes \in Garbage
    /\ capacity_requests \in Garbage
    /\ garbage = ~Zeroed

Init == renderer_init

\* the build in which malloc happened to return zeroed memory
InitZeroed == InitCommon /\ Zeroed /\ garbage = FALSE

\* the calls that add an element are made while the model's bound allows
MayGrow ==
    Len(issued) + requested
        < (IF garbage THEN MaxElementsGarbage ELSE MaxElements)

(* --------------------------- new_mesh ---------------------------------- *)
Allocs == {"inplace", "moved", "fail"}

\* newcap = (capacity * 3) / 2
GrowCapacity(cap) == (cap * 3) \div 2

\* the size new_mesh passes to malloc and to realloc
MeshMallocBytes == InitialCapacity * SizeofMesh
MeshReallocBytes(newcap) == newcap

\* new_mesh(this): the registry after the call, the handle it returns and
\* whether it returned ("running"), called panic() or faulted.
new_mesh(alloc, survive) ==
    LET same == [st |-> "running", heap |-> heap, meshes |-> meshes,
                 n_meshes |-> n_meshes, capacity_meshes |-> capacity_meshes,
                 mesh_mem |-> mesh_mem, req_mem |-> req_mem, ret |-> n_meshes,
                 failed |-> {}]
    IN
    IF meshes = NULL THEN
        LET m == Malloc(heap, MeshMallocBytes, alloc # "fail") IN
        IF m.ptr = NULL THEN [same EXCEPT !.st = "panic", !.failed = {"malloc"}]
        ELSE [same EXCEPT !.heap = m.heap, !.meshes = m.ptr,
                          !.capacity_meshes = InitialCapacity,
                          !.mesh_mem = <<>>, !.n_meshes = n_meshes + 1]
    ELSE IF n_meshes = capacity_meshes THEN
        LET newcap == GrowCapacity(capacity_meshes)
            bytes == MeshReallocBytes(newcap)
        IN
        IF Live(heap, meshes) THEN
            LET r == Realloc(heap, meshes, bytes, alloc) IN
            IF r.ptr = NULL THEN
                [same EXCEPT !.st = "panic", !.meshes = NULL, !.mesh_mem = <<>>,
                             !.failed = {"realloc"}]
            ELSE
                [same EXCEPT
                    !.heap = r.heap, !.meshes = r.ptr,
                    !.capacity_meshes = newcap,
                    !.mesh_mem = Truncate(mesh_mem,
                                          Min(heap[meshes.id].bytes, bytes),
                                          SizeofMesh),
                    !.req_mem = IF requests = meshes THEN <<>> ELSE req_mem,
                    !.n_meshes = n_meshes + 1]
        ELSE IF survive THEN
            LET r == ReallocWild(heap, bytes) IN
            [same EXCEPT !.heap = r.heap, !.meshes = r.ptr,
                         !.capacity_meshes = newcap, !.mesh_mem = <<>>,
                         !.n_meshes = n_meshes + 1]
        ELSE [same EXCEPT !.st = "fault"]
    ELSE [same EXCEPT !.n_meshes = n_meshes + 1]

(* --------------------- renderer_register_mesh -------------------------- *)
\* the check of the arguments left without its PANIC_IF_ZERO lines
RegisterPreconditionsNoZero(in) ==
    /\ in.vertices # "NULL"
    /\ in.texture_data # "NULL"

\* PANIC_IF_NULL(vertices); PANIC_IF_NULL(texture_data);
\* PANIC_IF_ZERO(n_vertices); PANIC_IF_ZERO(texture_size);
RegisterPreconditions(in) ==
    /\ in.vertices # "NULL"
    /\ in.texture_data # "NULL"
    /\ in.n_vertices # 0
    /\ in.texture_size # 0

\* The call up to its return, its panic() or its fault: the values of the
\* variables it changes, and the handle when it returns.
RegisterResult(in, alloc, linear_ok, survive) ==
    LET o == new_mesh(alloc, survive)
        ret == o.ret
        valid == InBounds(o.heap, o.meshes, ret, SizeofMesh)
        old == Load(o.heap, o.meshes, o.mesh_mem, ret, SizeofMesh, IndetMesh)
        \* linearAlloc(size): a fresh vertex buffer, or NULL (0)
        vbo == IF linear_ok THEN Len(linear) + 1 ELSE 0
        lin == IF linear_ok
               THEN Append(linear, [data |-> in.vertices, count |-> in.n_vertices])
               ELSE linear
        slot1 == [old EXCEPT !.material = Det(in.material),
                             !.vbo_data = Det(vbo),
                             !.vertex_count = Det(in.n_vertices)]
        slot2 == [slot1 EXCEPT !.texture = Det(TextureOf(in.texture_data)),
                               !.buf_info = Det("C3D_GetBufInfo")]
        put(slot) == IF valid THEN Store(o.mesh_mem, ret, slot, IndetMesh)
                     ELSE o.mesh_mem
        other == IF valid /\ requests = o.meshes THEN <<>> ELSE o.req_mem
        base == [st |-> o.st, heap |-> o.heap, meshes |-> o.meshes,
                 n_meshes |-> o.n_meshes, capacity_meshes |-> o.capacity_meshes,
                 mesh_mem |-> o.mesh_mem, req_mem |-> o.req_mem,
                 linear |-> linear, bound_buf |-> bound_buf, ret |-> Indet,
                 failed |-> o.failed]
    IN
    IF ~RegisterPreconditions(in) THEN
        [base EXCEPT !.st = "panic", !.heap = heap, !.meshes = meshes,
                     !.n_meshes = n_meshes, !.capacity_meshes = capacity_meshes,
                     !.mesh_mem = mesh_mem, !.req_mem = req_mem, !.failed = {}]
    ELSE IF o.st # "running" THEN base
    ELSE IF ~valid /\ ~survive THEN [base EXCEPT !.st = "fault"]
    ELSE IF ~linear_ok THEN
        \* memcpy(NULL, vertices, size) comes before PANIC_IF_NULL(mesh->vbo_data)
        [base EXCEPT !.st = IF survive THEN "panic" ELSE "fault",
                     !.mesh_mem = put(slot1), !.req_mem = other,
                     !.failed = {"linearAlloc"}]
    ELSE IF ~TextureImports(in.texture_data) THEN
        [base EXCEPT !.st = "panic", !.mesh_mem = put(slot1), !.req_mem = other,
                     !.linear = lin, !.failed = {"Tex3DS_TextureImport"}]
    ELSE
        [base EXCEPT !.mesh_mem = put(slot2), !.req_mem = other,
                     !.linear = lin, !.bound_buf = Det(vbo), !.ret = Det(ret)]

\* the outcomes the allocators have in this call, and whether the call
\* has undefined behaviour to survive
MeshAllocs(in) ==
    IF ~RegisterPreconditions(in) THEN {"inplace"}
    ELSE IF meshes = NULL THEN {"inplace", "fail"}
    ELSE IF n_meshes = capacity_meshes /\ Live(heap, meshes) THEN Allocs
    ELSE {"inplace"}

LinearAllocs(in) == IF RegisterPreconditions(in) THEN BOOLEAN ELSE {TRUE}

RegisterSurvivals(in, alloc, linear_ok) ==
    LET o == new_mesh(alloc, TRUE) IN
    IF /\ RegisterPreconditions(in)
       /\ o.st = "running"
       /\ \/ ~linear_ok
          \/ ~InBounds(o.heap, o.meshes, o.ret, SizeofMesh)
          \/ (meshes # NULL /\ n_meshes = capacity_meshes /\ ~Live(heap, meshes))
    THEN BOOLEAN ELSE {TRUE}

renderer_register_mesh ==
    /\ status = "running"
    /\ MayGrow
    /\ \E in \in RegisterInputs(Len(issued)) :
       \E alloc \in MeshAllocs(in), linear_ok \in LinearAllocs(in) :
       \E survive \in RegisterSurvivals(in, alloc, linear_ok) :
        LET r == RegisterResult(in, alloc, linear_ok, survive) IN
        /\ status' = r.st
        /\ heap' = r.heap
        /\ meshes' = r.meshes
        /\ n_meshes' = r.n_meshes
        /\ capacity_meshes' = r.capacity_meshes
        /\ mesh_mem' = r.mesh_mem
        /\ req_mem' = r.req_mem
        /\ linear' = r.linear
        /\ bound_buf' = r.bound_buf
        /\ issued' = IF r.st = "running"
                     THEN Append(issued,
                            [handle |-> r.ret[1], material |-> in.material,
                             vertex_count |-> in.n_vertices,
                             texture |-> TextureOf(in.texture_data),
                             vbo_data |-> Len(linear) + 1,
                             vertices |-> in.vertices])
                     ELSE issued
        /\ last' = [op |-> "register", arg |-> in, ret |-> r.ret,
                    failed |-> r.failed]
    /\ UNCHANGED garbage
    /\ events' = <<>>
    /\ UNCHANGED <<projection, requests, n_requests, capacity_requests,
                   enqueued, requested>>

(* ------------------------- renderer_request ---------------------------- *)
\* the sizes renderer_request passes to malloc and to realloc
RequestMallocBytes == InitialCapacity * SizeofMesh
RequestReallocBytes(newcap) == newcap

\* The handles a caller passes: the first and the last one it was issued.
\* The code checks no handle; a caller that holds none makes no request.
Handles ==
    IF issued = <<>> THEN {}
    ELSE {issued[1].handle, issued[Len(issued)].handle}

\* the inputs of the request that follows k earlier requests
RequestInputs(k) ==
    IF k < Variety
    THEN [mesh_id : Handles, model : Matrices]
    ELSE {[mesh_id |-> h, model |-> "translate"]
             : h \in {issued[j].handle : j \in {1} \cap DOMAIN issued}}

RequestAllocs ==
    IF requests = NULL THEN {"inplace", "fail"}
    ELSE IF n_requests = capacity_requests /\ Live(heap, requests) THEN Allocs
    ELSE {"inplace"}

\* The growth step of renderer_request: realloc(this->requests, newcap) is
\* assigned to this->meshes, and the check that follows reads this->requests.
GrowRequests(o, alloc, survive) ==
    LET newcap == GrowCapacity(o.capacity_requests)
        bytes == RequestReallocBytes(newcap)
    IN
    IF Live(o.heap, o.requests) THEN
        LET r == Realloc(o.heap, o.requests, bytes, alloc) IN
        [o EXCEPT !.heap = r.heap, !.meshes = r.ptr, !.mesh_mem = <<>>,
                  !.failed = IF r.ptr = NULL THEN {"realloc"} ELSE {},
                  !.req_mem = IF r.ptr = o.requests
                              THEN Truncate(o.req_mem, bytes, SizeofRequest)
                              ELSE IF r.ptr = NULL THEN o.req_mem ELSE <<>>,
                  !.capacity_requests = newcap]
    ELSE IF survive THEN
        LET r == ReallocWild(o.heap, bytes) IN
        [o EXCEPT !.heap = r.heap, !.meshes = r.ptr, !.mesh_mem = <<>>,
                  !.capacity_requests = newcap]
    ELSE [o EXCEPT !.st = "fault"]

RequestResult(mesh_id, model, alloc, survive) ==
    LET same == [st |-> "running", heap |-> heap,
                 requests |-> requests, n_requests |-> n_requests,
                 capacity_requests |-> capacity_requests, req_mem |-> req_mem,
                 meshes |-> meshes, mesh_mem |-> mesh_mem, failed |-> {}]
        o == IF requests = NULL THEN
                 LET m == Malloc(heap, RequestMallocBytes, alloc # "fail") IN
                 IF m.ptr = NULL
                 THEN [same EXCEPT !.st = "panic", !.failed = {"malloc"}]
                 ELSE [same EXCEPT !.heap = m.heap, !.requests = m.ptr,
                                   !.capacity_requests = InitialCapacity,
                                   !.req_mem = <<>>]
             ELSE IF n_requests = capacity_requests
                  THEN GrowRequests(same, alloc, survive)
             ELSE same
        \* struct render_request* request = &this->requests[this->n_requests];
        idx == n_requests
        valid == InBounds(o.heap, o.requests, idx, SizeofRequest)
        slot == [mesh_id |-> Det(mesh_id), model |-> Det(model)]
    IN
    IF o.st # "running" THEN o
    ELSE IF ~valid /\ ~survive THEN [o EXCEPT !.st = "fault"]
    ELSE [o EXCEPT
            !.n_requests = n_requests + 1,
            !.req_mem = IF valid THEN Store(o.req_mem, idx, slot, IndetRequest)
                        ELSE o.req_mem,
            !.mesh_mem = IF valid /\ o.meshes = o.requests THEN <<>>
                         ELSE o.mesh_mem]

RequestSurvivals(in, alloc) ==
    IF RequestResult(in.mesh_id, in.model, alloc, FALSE).st = "fault"
    THEN BOOLEAN ELSE {TRUE}

renderer_request ==
    /\ status = "running"
    /\ MayGrow
    /\ \E in \in RequestInputs(requested), alloc \in RequestAllocs :
       \E survive \in RequestSurvivals(in, alloc) :
        LET mesh_id == in.mesh_id
            model == in.model
            r == RequestResult(mesh_id, model, alloc, survive)
        IN
        /\ status' = r.st
        /\ heap' = r.heap
        /\ requests' = r.requests
        /\ n_requests' = r.n_requests
        /\ capacity_requests' = r.capacity_requests
        /\ req_mem' = r.req_mem
        /\ meshes' = r.meshes
        /\ mesh_mem' = r.mesh_mem
        /\ enqueued' = IF r.st = "running"
                       THEN Append(enqueued, [mesh_id |-> mesh_id, model |-> model])
                       ELSE enqueued
        /\ requested' = IF r.st = "running" THEN requested + 1 ELSE requested
        /\ last' = [op |-> "request",
                    arg |-> [mesh_id |-> mesh_id, model |-> model],
                    ret |-> Indet, failed |-> r.failed]
    /\ UNCHANGED garbage
    /\ events' = <<>>
    /\ UNCHANGED <<projection, n_meshes, capacity_meshes, linear, bound_buf,
                   issued>>

(* -------------------------- renderer_render ---------------------------- *)
\* requests[idx] and the mesh its handle names, as the loop reads them
RequestAt(idx) == Load(heap, requests, req_mem, idx, SizeofRequest, IndetRequest)

MeshAt(id) ==
    IF id = Indet THEN IndetMesh
    ELSE Load(heap, meshes, mesh_mem, id[1], SizeofMesh, IndetMesh)

\* iteration idx touches memory outside a live allocation
UndefinedAt(idx) ==
    IF ~InBounds(heap, requests, idx, SizeofRequest) THEN TRUE
    ELSE IF RequestAt(idx).mesh_id = Indet THEN TRUE
    ELSE ~InBounds(heap, meshes, RequestAt(idx).mesh_id[1], SizeofMesh)

\* the iteration with its draw issued ahead of the texture bind
RequestEventsDrawFirst(rq, mesh) ==
    << [op |-> "uniform", loc |-> "projection", val |-> Det(projection)],
       [op |-> "uniform", loc |-> "modelView", val |-> rq.model],
       [op |-> "uniform", loc |-> "material", val |-> mesh.material],
       [op |-> "uniform", loc |-> "lightVec", val |-> Det(LightVec)],
       [op |-> "uniform", loc |-> "lightHalfVec", val |-> Det(LightVec)],
       [op |-> "uniform", loc |-> "lightClr", val |-> Det(LightClr)],
       [op |-> "draw", first |-> 0, count |-> mesh.vertex_count,
        buf |-> bound_buf],
       [op |-> "texbind", unit |-> 0, tex |-> mesh.texture] >>

\* the backend calls of one iteration of the loop, in program order
RequestEvents(rq, mesh) ==
    << [op |-> "uniform", loc |-> "projection", val |-> Det(projection)],
       [op |-> "uniform", loc |-> "modelView", val |-> rq.model],
       [op |-> "uniform", loc |-> "material", val |-> mesh.material],
       [op |-> "uniform", loc |-> "lightVec", val |-> Det(LightVec)],
       [op |-> "uniform", loc |-> "lightHalfVec", val |-> Det(LightVec)],
       [op |-> "uniform", loc |-> "lightClr", val |-> Det(LightClr)],
       [op |-> "texbind", unit |-> 0, tex |-> mesh.texture],
       [op |-> "draw", first |-> 0, count |-> mesh.vertex_count,
        buf |-> bound_buf] >>

EventsPerRequest == Len(RequestEvents(IndetRequest, IndetMesh))

\* for (idx = 0; idx < n; idx++): the calls of the first n iterations
FrameEvents(n) ==
    [k \in 1..(EventsPerRequest * n) |->
        LET idx == (k - 1) \div EventsPerRequest
            rq == RequestAt(idx)
        IN RequestEvents(rq, MeshAt(rq.mesh_id))[((k - 1) % EventsPerRequest) + 1]]

\* the loop left without the reset that follows it
ClearQueueForgotten(n) == n

\* this->n_requests = 0;
ClearQueue(n) == 0

\* a render that releases the queue's storage at the end of the frame
renderer_render_releasing ==
    /\ status = "running"
    /\ status' = "running"
    /\ events' = FrameEvents(n_requests)
    /\ n_requests' = ClearQueue(n_requests)
    /\ requests' = NULL
    /\ capacity_requests' = 0
    /\ heap' = IF Live(heap, requests)
               THEN [heap EXCEPT ![requests.id].live = FALSE] ELSE heap
    /\ req_mem' = <<>>
    /\ mesh_mem' = IF requests = meshes THEN <<>> ELSE mesh_mem
    /\ enqueued' = <<>>
    /\ last' = [op |-> "render", arg |-> enqueued, ret |-> Indet]
    /\ UNCHANGED garbage
    /\ UNCHANGED <<projection, meshes, n_meshes, capacity_meshes,
                   linear, bound_buf, issued, requested>>

renderer_render ==
    /\ status = "running"
    /\ \/ /\ status' = "running"
          /\ events' = FrameEvents(n_requests)
          /\ n_requests' = ClearQueue(n_requests)
       \/ \E k \in 0..(n_requests - 1) :
          /\ UndefinedAt(k)
          /\ status' = "fault"
          /\ events' = FrameEvents(k)
          /\ n_requests' = n_requests
    \* the elements at and past n_requests are dead: renderer_request writes
    \* requests[n_requests] before renderer_render reads it again
    /\ req_mem' = SubSeq(req_mem, 1, Min(Len(req_mem), n_requests'))
    /\ enqueued' = <<>>
    /\ last' = [op |-> "render", arg |-> enqueued, ret |-> Indet]
    /\ UNCHANGED garbage
    /\ UNCHANGED <<heap, projection, registry, requests, capacity_requests,
                   linear, bound_buf, issued, requested>>

(* --------------------------- specification ----------------------------- *)
Next ==
    \/ renderer_register_mesh
    \/ renderer_request
    \/ renderer_render

\* every build: the table fields hold whatever malloc returned
Spec == Init /\ [][Next]_vars

\* the build in which they happened to be zero
SpecZeroed == InitZeroed /\ [][Next]_vars

(* ------------------- what the backend and a caller see ----------------- *)
\* The backend's registers when a draw executes: the uniforms and the texture
\* unit as the calls before the draw left them.
UniformNames ==
    {"projection", "modelView", "material", "lightVec", "lightHalfVec", "lightClr"}

BackendReset == [unif |-> [u \in UniformNames |-> Indet], unit0 |-> Indet]

BackendApply(st, e) ==
    IF e.op = "uniform" THEN [st EXCEPT !.unif[e.loc] = e.val]
    ELSE IF e.op = "texbind" /\ e.unit = 0 THEN [st EXCEPT !.unit0 = e.tex]
    ELSE st

RECURSIVE DrawsFrom(_, _, _)
DrawsFrom(ev, i, st) ==
    IF i > Len(ev) THEN <<>>
    ELSE IF ev[i].op = "draw"
         THEN <<[unif |-> st.unif, unit0 |-> st.unit0, first |-> ev[i].first,
                 count |-> ev[i].count, buf |-> ev[i].buf]>>
              \o DrawsFrom(ev, i + 1, st)
         ELSE DrawsFrom(ev, i + 1, BackendApply(st, ev[i]))

\* the draw calls of the last API call, each with the registers it ran under
DrawCalls == DrawsFrom(events, 1, BackendReset)

\* the registrations that returned handle h
IssuedAs(h) == {k \in 1..Len(issued) : issued[k].handle = h}

\* handle issued[k].handle resolves to the data of the k-th registration
Resolves(k) ==
    LET m == Load(heap, meshes, mesh_mem, issued[k].handle, SizeofMesh, IndetMesh)
    IN /\ m.material = Det(issued[k].material)
       /\ m.vbo_data = Det(issued[k].vbo_data)
       /\ m.vertex_count = Det(issued[k].vertex_count)
       /\ m.texture = Det(issued[k].texture)
       /\ linear[issued[k].vbo_data] =
              [data |-> issued[k].vertices, count |-> issued[k].vertex_count]

\* renderer_render has just returned
Rendered == last.op = "render" /\ status = "running"

\* draw d is the draw of request rq: its model matrix and, when the handle
\* was issued, that mesh's texture and vertex count
DrawOf(d, rq) ==
    /\ d.unif["modelView"] = Det(rq.model)
    /\ \A k \in IssuedAs(rq.mesh_id) :
          /\ d.unit0 = Det(issued[k].texture)
          /\ d.count = Det(issued[k].vertex_count)

(* ------------------------------- claims -------------------------------- *)

\* C1: on a fresh renderer the k-th registration (from 0) returns handle k,
\* so no two registrations return the same handle, and no call lowers the
\* number of registered meshes.
C1_HandlesAreInsertionIndices ==
    [][ /\ \A k \in 1..Len(issued') : issued'[k].handle = k - 1
        /\ n_meshes' >= n_meshes ]_vars

\* C2: once the registry has grown past its first capacity, every handle
\* issued so far still resolves to the data of its registration.
C2_GrowthPreservesMeshes ==
    (status = "running" /\ capacity_meshes > InitialCapacity)
        => \A k \in 1..Len(issued) : Resolves(k)

\* C3: if request a was enqueued before request b in the frame, the backend
\* sees the draw of a strictly before the draw of b, for every queue length.
C3_DrawsInEnqueueOrder ==
    Rendered =>
        \A a, b \in 1..Len(last.arg) :
            a < b =>
                \E x, y \in 1..Len(DrawCalls) :
                    /\ x < y
                    /\ DrawOf(DrawCalls[x], last.arg[a])
                    /\ DrawOf(DrawCalls[y], last.arg[b])

\* C4: after every return of renderer_render the queue length is 0.
C4_QueueEmptyAfterRender == Rendered => n_requests = 0

\* C4 witness: a render of a frame of several requests has returned
C4_Witness == Rendered /\ Len(last.arg) >= 2 /\ n_requests = 0

\* a registration whose vertex sequence or texture bytes are empty
EmptyInput(in) ==
    \/ in.vertices = "NULL" \/ in.n_vertices = 0
    \/ in.texture_data = "NULL" \/ in.texture_size = 0

\* C5: a registration with an empty vertex sequence or empty texture bytes
\* reaches panic(), and the registry is then as it was before the call.
C5_EmptyInputPanicsUnmutated ==
    [][ (last'.op = "register" /\ EmptyInput(last'.arg))
            => (status' = "panic" /\ UNCHANGED registry /\ UNCHANGED issued) ]_vars

\* C5 witness: such a registration was made on a registry that holds meshes
C5_Witness ==
    /\ status = "panic"
    /\ last.op = "register"
    /\ last.arg.n_vertices = 0
    /\ Len(issued) >= 2
    /\ n_meshes = Len(issued)

\* C6: a render with no request queued makes no backend call and leaves the
\* registry unchanged, also directly after renderer_init.
C6_EmptyRenderIsNoOp ==
    [][ (last'.op = "render" /\ last'.arg = <<>>)
            => (status' = "running" /\ events' = <<>> /\ UNCHANGED registry) ]_vars

\* C7: for every queued request (h, M) the render issues exactly one draw,
\* with mesh h's vertex count, mesh h's texture on unit 0, modelView = M,
\* mesh h's material, the projection of renderer_init, lightVec (0,0,-1,0)
\* and lightClr (1,1,1,1).
C7_DrawCarriesRequestAndMesh ==
    Rendered =>
        /\ Len(DrawCalls) = Len(last.arg)
        /\ \A i \in 1..Len(last.arg) :
            LET d == DrawCalls[i]
                rq == last.arg[i]
            IN /\ d.unif["modelView"] = Det(rq.model)
               /\ d.unif["projection"] = Det(Projection)
               /\ d.unif["lightVec"] = Det(LightVec)
               /\ d.unif["lightClr"] = Det(LightClr)
               /\ \A k \in IssuedAs(rq.mesh_id) :
                    /\ d.count = Det(issued[k].vertex_count)
                    /\ d.unit0 = Det(issued[k].texture)
                    /\ d.unif["material"] = Det(issued[k].material)

\* C8: the draw of a request with handle h reads the vertex buffer created
\* for mesh h, not that of the most recently registered mesh.
C8_DrawReadsOwnVertexBuffer ==
    Rendered =>
        \A i \in 1..Min(Len(last.arg), Len(DrawCalls)) :
            \A k \in IssuedAs(last.arg[i].mesh_id) :
                DrawCalls[i].buf = Det(issued[k].vbo_data)

\* C9: the draws of a render are exactly the requests enqueued since the
\* render before it, each drawn once.
C9_FrameDrawsExactlyItsRequests ==
    Rendered =>
        /\ Len(DrawCalls) = Len(last.arg)
        /\ \A i \in 1..Len(last.arg) : DrawOf(DrawCalls[i], last.arg[i])

\* C10: once the queue has grown past its first capacity, its storage holds
\* capacity_requests requests and every request enqueued in the frame is
\* still what renderer_render will read.
C10_QueueGrowthPreservesRequests ==
    (status = "running" /\ capacity_requests > InitialCapacity)
        => /\ InBounds(heap, requests, capacity_requests - 1, SizeofRequest)
           /\ \A i \in 1..Len(enqueued) :
                RequestAt(i - 1) = [mesh_id |-> Det(enqueued[i].mesh_id),
                                    model |-> Det(enqueued[i].model)]

\* a registration has returned
Registered == last.op = "register" /\ status = "running"

\* C11: after every registration the registry's capacity is one of 10, 15,
\* 22, 33 (10 at first, then floor(1.5 x capacity) each time it was full),
\* the allocated storage holds capacity_meshes mesh elements and
\* n_meshes <= capacity_meshes.
C11_RegistryGrowthPolicy ==
    Registered =>
        /\ capacity_meshes \in {10, 15, 22, 33}
        /\ Len(issued) <= InitialCapacity => capacity_meshes = InitialCapacity
        /\ InBounds(heap, meshes, capacity_meshes - 1, SizeofMesh)
        /\ n_meshes <= capacity_meshes

\* C12: a registration whose vertex-memory allocation or texture import
\* fails ends in panic() and nowhere else (the null vertex buffer is not
\* written through first), and n_meshes is what it was before the call.
C12_BackendFailureLeavesNoMesh ==
    [][ (/\ last'.op = "register"
         /\ last'.failed \cap {"linearAlloc", "Tex3DS_TextureImport"} # {})
            => (status' = "panic" /\ n_meshes' = n_meshes) ]_vars

\* C13: a call of renderer_register_mesh or renderer_request in which
\* malloc or realloc returned null ends in panic(): it does not return and
\* it writes no request.
C13_AllocationFailureIsFatal ==
    [][ (/\ last'.op \in {"register", "request"}
         /\ last'.failed \cap {"malloc", "realloc"} # {})
            => (/\ status' = "panic"
                /\ n_requests' = n_requests
                /\ req_mem' = req_mem) ]_vars

\* the order of the backend calls of one request
GroupOrder ==
    << "projection", "modelView", "material", "lightVec", "lightHalfVec",
       "lightClr", "texbind", "draw" >>

EventKind(e) == IF e.op = "uniform" THEN e.loc ELSE e.op

\* C14: the backend calls of a render are whole groups of eight, one group
\* per request in queue order, each in the order projection, modelView,
\* material, lightVec, lightHalfVec, lightClr, texture bind to unit 0, draw;
\* the matrix, material, texture and vertex count of a group are those read
\* through the request at the group's own index.
C14_EventsGroupedPerRequest ==
    [][ last'.op = "render" =>
        /\ Len(events') % Len(GroupOrder) = 0
        /\ \A j \in 1..Len(events') :
            LET idx == (j - 1) \div Len(GroupOrder)
                pos == ((j - 1) % Len(GroupOrder)) + 1
                rq == RequestAt(idx)
                mesh == MeshAt(rq.mesh_id)
                e == events'[j]
            IN /\ idx < n_requests
               /\ EventKind(e) = GroupOrder[pos]
               /\ (pos = 1) => (e.val = Det(projection))
               /\ (pos = 2) => (e.val = rq.model)
               /\ (pos = 3) => (e.val = mesh.material)
               /\ (pos = 7) => (e.unit = 0 /\ e.tex = mesh.texture)
               /\ (pos = 8) => (e.first = 0 /\ e.count = mesh.vertex_count) ]_vars

\* C14 witness: a render of two requests on different meshes has returned
\* with both groups issued
C14_Witness ==
    /\ Rendered
    /\ Len(last.arg) >= 2
    /\ Len(events) = Len(GroupOrder) * Len(last.arg)
    /\ events[8].count # events[16].count
    /\ events[8].count # Indet /\ events[16].count # Indet

\* C15: a call of renderer_request, growing the queue or not, leaves meshes,
\* n_meshes, capacity_meshes and the stored meshes as they were, and every
\* handle that resolved to its mesh before the call resolves to it after.
C15_RequestLeavesRegistry ==
    [][ last'.op = "request" =>
        /\ UNCHANGED registry
        /\ \A k \in 1..Len(issued) : Resolves(k) => Resolves(k)' ]_vars

\* C16: no call touches a table element outside the table's allocation (the
\* one fault there is comes from the copy into a null vertex buffer), and
\* while the program runs each table's allocation holds capacity elements
\* and its count is at most its capacity (callers pass issued handles only).
C16_TablesStayInBounds ==
    /\ status = "fault" => (last.op = "register" /\ "linearAlloc" \in last.failed)
    /\ status = "running" =>
        /\ capacity_meshes > 0
              => InBounds(heap, meshes, capacity_meshes - 1, SizeofMesh)
        /\ n_meshes <= capacity_meshes
        /\ capacity_requests > 0
              => InBounds(heap, requests, capacity_requests - 1, SizeofRequest)
        /\ n_requests <= capacity_requests

\* C17: the renderer renderer_init returns has meshes = NULL, requests =
\* NULL and the four counts and capacities 0, so that the first registration
\* and the first request allocate their table with capacity 10.
C17_InitLeavesTablesEmpty ==
    /\ last.op = "init" => Zeroed
    /\ (Registered /\ Len(issued) = 1)
          => (capacity_meshes = InitialCapacity /\ n_meshes = 1)
    /\ (last.op = "request" /\ status = "running" /\ requested = 1)
          => (capacity_requests = InitialCapacity /\ n_requests = 1)

\* C18: a call of renderer_render, whatever the queue holds and however the
\* call ends, leaves the registry (meshes, n_meshes, capacity_meshes, the
\* stored meshes), the projection matrix, capacity_requests, the queue's
\* storage reference and the allocations as they were.
C18_RenderChangesOnlyCount ==
    [][ last'.op = "render" =>
            UNCHANGED <<registry, projection, capacity_requests, requests,
                        heap, linear>> ]_vars

\* C18 witness: a render of a non-empty frame has returned and the queue
\* still owns the storage its first request allocated
C18_Witness ==
    /\ Rendered
    /\ last.arg # <<>>
    /\ issued # <<>>
    /\ capacity_requests = InitialCapacity
    /\ InBounds(heap, requests, capacity_requests - 1, SizeofRequest)

====
